---- MODULE Spec2Model ----
(***************************************************************************)
(* Model of the simulation core of rusteroids (src/src/core.rs): the body  *)
(* store (a legion World), Core::init / tick / draw / click / pause, the   *)
(* physics step do_one_physics_step and the orbit prediction.              *)
(*                                                                         *)
(* Numbers.  The program computes in f64.  The model computes in integers: *)
(* positions, velocities, masses, radii and time steps are integers, a     *)
(* division truncates toward zero, a square root is the integer square     *)
(* root and the cube root of from_mass is rounded to the nearest integer.  *)
(* An f64 NaN (0/0, produced when two attracting bodies sit on the same    *)
(* point) is modelled by the flag `nan` of a body: its position and        *)
(* velocity are NaN, every comparison with them is false.                  *)
(***************************************************************************)
EXTENDS Integers, Sequences, FiniteSets, TLC

VARIABLES
    world,            \* Core.world: the entities, in iteration order
    paused,           \* Core.paused
    predicted_orbit,  \* Core.predicted_orbit: [some, points] (Option<Vec<Point2>>)
    panicked,         \* an expect() failed: the process has aborted
    inits,            \* history: number of calls of init so far
    ticks,            \* history: number of unpaused ticks so far
    last              \* history: the last call and what it did

vars == <<world, paused, predicted_orbit, panicked, inits, ticks, last>>

----------------------------------------------------------------------------
(* Program constants (crate root) *)
WIDTH == 1600
HEIGHT == 1200
INITIAL_SPEED == 50
BODY_INITIAL_MASS_MAX == 50
SUN_SIZE == 1000
\* GRAVITATIONAL_CONSTANT = 0.5 = G_NUM / G_DEN
G_NUM == 1
G_DEN == 2
\* std::f64::consts::PI, as the fraction 355/113
PI_NUM == 355
PI_DEN == 113
\* the sun's id and the click tolerance
SUN_ID == -1
CLICK_TOLERANCE == 5

(* Bounds of the model *)
\* NUM_BODIES is 100 in the program
NUM_BODIES == 2
\* predict_orbit runs 10000 steps and samples every 100th in the program
PREDICT_STEPS == 3
SAMPLE_EVERY == 2
\* unpaused ticks and init calls explored
MaxTicks == 1
MaxInits == 2

(* The values the random draws of init and the host's inputs range over.   *)
(* Draws lists the bodies init may draw: x in [0,WIDTH), y in [0,HEIGHT),  *)
(* velocities in [-INITIAL_SPEED,INITIAL_SPEED), mass in                   *)
(* [1,BODY_INITIAL_MASS_MAX).  The sun sits at <<800, 600>> with radius 6, *)
(* the bodies have radius 1.                                               *)
Draws ==
    {[x |-> 761, y |-> 600, x_velocity |-> 1, y_velocity |-> 0, mass |-> 3],
     [x |-> 761, y |-> 600, x_velocity |-> 1, y_velocity |-> 0, mass |-> 2],
     [x |-> 762, y |-> 600, x_velocity |-> 0, y_velocity |-> 0, mass |-> 2],
     [x |-> 763, y |-> 601, x_velocity |-> 0, y_velocity |-> 0, mass |-> 2],
     [x |-> 790, y |-> 600, x_velocity |-> 0, y_velocity |-> 0, mass |-> 2]}
\* the arguments of a tick: dt and the camera movement
TickInputs == {[dt |-> 1, camera |-> <<0, 0>>], [dt |-> 2, camera |-> <<1, 0>>]}
ClickPoints == {<<762, 600>>, <<790, 600>>, <<100, 100>>}

----------------------------------------------------------------------------
(* Arithmetic *)

\* f64 division of integers, truncated toward zero (b > 0)
Div(a, b) == IF a >= 0 THEN a \div b ELSE -((-a) \div b)

RECURSIVE SqrtSearch(_, _, _)
SqrtSearch(n, lo, hi) ==
    IF lo >= hi THEN lo
    ELSE LET mid == (lo + hi + 1) \div 2
         IN IF mid * mid <= n THEN SqrtSearch(n, mid, hi)
                              ELSE SqrtSearch(n, lo, mid - 1)

\* Vector2::magnitude of a vector whose squared length is n
ISqrt(n) == SqrtSearch(n, 0, IF n < 46340 THEN n ELSE 46340)

VAdd(a, b) == <<a[1] + b[1], a[2] + b[2]>>
VSub(a, b) == <<a[1] - b[1], a[2] - b[2]>>
VScale(a, k) == <<a[1] * k, a[2] * k>>
NormSquared(a) == a[1] * a[1] + a[2] * a[2]

\* sqrt(a) + m < sqrt(b) and sqrt(a) + m <= sqrt(b), exactly, for m >= 0
SqrtPlusLess(a, m, b) ==
    LET R == b - a - m * m
    IN R > 0 /\ 4 * m * m * a < R * R

SqrtPlusLE(a, m, b) ==
    LET R == b - a - m * m
    IN R >= 0 /\ 4 * m * m * a <= R * R

----------------------------------------------------------------------------
(* Dimensions::from_mass: radius = cbrt(mass / (4/3 * PI)), rounded to the *)
(* nearest integer r: (2r-1)^3 <= 8 * mass * 3 / (4 * PI) < (2r+1)^3.      *)
Cube(n) == n * n * n

from_mass(mass) ==
    [mass |-> mass,
     radius |-> CHOOSE r \in 0..20 :
                   /\ Cube(2 * r - 1) * 4 * PI_NUM <= 8 * 3 * PI_DEN * mass
                   /\ 8 * 3 * PI_DEN * mass < Cube(2 * r + 1) * 4 * PI_NUM]

----------------------------------------------------------------------------
(* The intermediate struct Body and the physics step *)

\* get_bodies: every entity of the world as a Body, delete = false
as_body(e) ==
    [position |-> e.position, velocity |-> e.velocity,
     radius |-> e.radius, mass |-> e.mass,
     selected |-> e.selected, id |-> e.id, sun |-> e.sun,
     nan |-> e.nan, delete |-> FALSE]

RECURSIVE get_bodies(_)
get_bodies(w) ==
    IF w = <<>> THEN <<>> ELSE <<as_body(Head(w))>> \o get_bodies(Tail(w))

\* calculate_gravitational_force, for two distinct points:
\* direction * G * (mass * other_mass) / (distance * distance)
calculate_gravitational_force(position, mass, other_position, other_mass) ==
    LET difference == VSub(other_position, position)
        distance == ISqrt(NormSquared(difference))
        num == G_NUM * (mass * other_mass)
        den == G_DEN * (distance * distance) * distance
    IN <<Div(difference[1] * num, den), Div(difference[2] * num, den)>>

\* the force is NaN when the two points coincide (0/0) or either is NaN
force_is_nan(body, clone) ==
    body.nan \/ clone.nan \/ body.position = clone.position

\* gravity_on without the `body.sun` test: the sun is attracted too
gravity_on_sun_too(body, clone, time_step) ==
    IF body.id = clone.id THEN body
    ELSE IF force_is_nan(body, clone)
         THEN [body EXCEPT !.nan = TRUE, !.velocity = <<0, 0>>]
         ELSE [body EXCEPT !.velocity =
                  VAdd(@, VScale(calculate_gravitational_force(
                                    body.position, body.mass,
                                    clone.position, clone.mass), time_step))]

\* the body of the loop "calculate new velocities" for one clone
gravity_on(body, clone, time_step) ==
    IF body.id = clone.id \/ body.sun THEN body
    ELSE IF force_is_nan(body, clone)
         THEN [body EXCEPT !.nan = TRUE, !.velocity = <<0, 0>>]
         ELSE [body EXCEPT !.velocity =
                  VAdd(@, VScale(calculate_gravitational_force(
                                    body.position, body.mass,
                                    clone.position, clone.mass), time_step))]

RECURSIVE gravity_loop(_, _, _, _)
gravity_loop(body, clones, k, time_step) ==
    IF k > Len(clones) THEN body
    ELSE gravity_loop(gravity_on(body, clones[k], time_step),
                      clones, k + 1, time_step)

\* "move bodies": position += velocity * time_step
move_body(body, time_step) ==
    IF body.nan THEN [body EXCEPT !.position = <<0, 0>>]
    ELSE [body EXCEPT !.position = VAdd(@, VScale(body.velocity, time_step))]

\* are_colliding: ncollide's ball-ball proximity with margin 0 is
\* Intersecting when the squared distance of the centres is at most the
\* squared sum of the radii; a comparison with NaN is false
are_colliding(body, clone) ==
    /\ ~body.nan
    /\ ~clone.nan
    /\ NormSquared(VSub(clone.position, body.position))
          <= (body.radius + clone.radius) * (body.radius + clone.radius)

\* swallow without `body.mass += clone.mass`
swallow_velocity_only(body, clone) ==
    [body EXCEPT
        !.velocity = <<@[1] + Div(clone.velocity[1] * clone.mass, body.mass),
                       @[2] + Div(clone.velocity[2] * clone.mass, body.mass)>>]

\* swallow with `body.mass = clone.mass` in place of `+=`
swallow_replacing_mass(body, clone) ==
    [body EXCEPT
        !.velocity = <<@[1] + Div(clone.velocity[1] * clone.mass, body.mass),
                       @[2] + Div(clone.velocity[2] * clone.mass, body.mass)>>,
        !.mass = clone.mass]

\* the bigger body swallows the smaller one
swallow(body, clone) ==
    [body EXCEPT
        !.velocity = <<@[1] + Div(clone.velocity[1] * clone.mass, body.mass),
                       @[2] + Div(clone.velocity[2] * clone.mass, body.mass)>>,
        !.mass = @ + clone.mass]

\* collide_with without the `body.sun` test: the sun swallows too
collide_with_sun_too(body, clone) ==
    IF body.id = clone.id THEN body
    ELSE IF are_colliding(body, clone)
         THEN IF body.mass > clone.mass
              THEN swallow(body, clone)
              ELSE [body EXCEPT !.delete = TRUE]
         ELSE body

\* the body of the loop "collision detection" for one clone
collide_with(body, clone) ==
    IF body.id = clone.id \/ body.sun THEN body
    ELSE IF are_colliding(body, clone)
         THEN IF body.mass > clone.mass
              THEN swallow(body, clone)
              ELSE [body EXCEPT !.delete = TRUE]
         ELSE body

RECURSIVE collision_loop(_, _, _)
collision_loop(body, clones, k) ==
    IF k > Len(clones) THEN body
    ELSE collision_loop(collide_with(body, clones[k]), clones, k + 1)

\* the first two passes of do_one_physics_step: new velocities, then moves
RECURSIVE velocity_pass_from(_, _, _)
velocity_pass_from(i, time_step, bodies) ==
    IF i > Len(bodies) THEN <<>>
    ELSE <<gravity_loop(bodies[i], bodies, 1, time_step)>>
            \o velocity_pass_from(i + 1, time_step, bodies)

velocity_pass(time_step, bodies) == velocity_pass_from(1, time_step, bodies)

RECURSIVE move_pass(_, _)
move_pass(time_step, bodies) ==
    IF bodies = <<>> THEN <<>>
    ELSE <<move_body(Head(bodies), time_step)>>
            \o move_pass(time_step, Tail(bodies))

moved_bodies(time_step, bodies) ==
    move_pass(time_step, velocity_pass(time_step, bodies))

\* the third pass: collision detection against the clones taken after the move
RECURSIVE collision_pass_from(_, _)
collision_pass_from(i, bodies) ==
    IF i > Len(bodies) THEN <<>>
    ELSE <<collision_loop(bodies[i], bodies, 1)>>
            \o collision_pass_from(i + 1, bodies)

collision_pass(bodies) == collision_pass_from(1, bodies)

do_one_physics_step(time_step, bodies) ==
    collision_pass(moved_bodies(time_step, bodies))

\* predict_orbit: PREDICT_STEPS physics steps on a scratch copy, dropping the
\* deleted bodies and sampling the first selected body every SAMPLE_EVERY
RECURSIVE filter_live(_)
filter_live(bodies) ==
    IF bodies = <<>> THEN <<>>
    ELSE IF Head(bodies).delete THEN filter_live(Tail(bodies))
         ELSE <<Head(bodies)>> \o filter_live(Tail(bodies))

find_selected(bodies) ==
    LET sel == {i \in DOMAIN bodies : bodies[i].selected}
    IN IF sel = {} THEN <<>>
       ELSE <<bodies[CHOOSE i \in sel : \A j \in sel : i <= j]>>

\* a sampled position; a NaN position is written <<0, 0, 1>>
sample_point(body) == IF body.nan THEN <<0, 0, 1>> ELSE body.position

RECURSIVE predict_loop(_, _, _, _)
predict_loop(time_step, bodies, i, predicted_positions) ==
    IF i >= PREDICT_STEPS THEN predicted_positions
    ELSE LET stepped == filter_live(do_one_physics_step(time_step, bodies))
             maybe_selected == find_selected(stepped)
         IN predict_loop(time_step, stepped, i + 1,
               IF i % SAMPLE_EVERY = 0 /\ maybe_selected # <<>>
               THEN Append(predicted_positions, sample_point(maybe_selected[1]))
               ELSE predicted_positions)

predict_orbit(time_step, w) == predict_loop(time_step, get_bodies(w), 0, <<>>)

----------------------------------------------------------------------------
(* The store *)

NoOrbit == [some |-> FALSE, points |-> <<>>]
SomeOrbit(points) == [some |-> TRUE, points |-> points]

\* what a call leaves in the history variable `last`
Call(op) ==
    [op |-> op, dt |-> 0, clicked |-> {}, deleted |-> {}, absorbers |-> {},
     collisions |-> {}, computed |-> FALSE]

\* one entity: the components Data.sun, Position, Velocity, Dimensions,
\* MetaInfo, Id, and the entity handle `ent`
Entity(ent, id, sun, position, velocity, dimensions) ==
    [ent |-> ent, id |-> id, sun |-> sun, position |-> position,
     velocity |-> velocity, radius |-> dimensions.radius,
     mass |-> dimensions.mass, selected |-> FALSE, nan |-> FALSE]

\* the random draws of one body in init: gen_range for x, y and the mass,
\* and 0 for a velocity when INITIAL_SPEED is 0
BodyDraws ==
    {[d EXCEPT !.x_velocity = IF INITIAL_SPEED = 0 THEN 0 ELSE @,
               !.y_velocity = IF INITIAL_SPEED = 0 THEN 0 ELSE @] : d \in Draws}

\* the draws of the re-initialisation runs: bodies at rest
RestDraws == {d \in BodyDraws : d.x_velocity = 0 /\ d.y_velocity = 0}

\* World::insert of the sun, then of the bodies 0 .. NUM_BODIES-1
inserted(w, first_ent, draws) ==
    w \o <<Entity(first_ent, SUN_ID, TRUE,
                  <<Div(WIDTH, 2), Div(HEIGHT, 2)>>, <<0, 0>>,
                  from_mass(SUN_SIZE))>>
      \o [k \in 1..NUM_BODIES |->
            Entity(first_ent + k, k - 1, FALSE,
                   <<draws[k].x, draws[k].y>>,
                   <<draws[k].x_velocity, draws[k].y_velocity>>,
                   from_mass(draws[k].mass))]

\* World::delete: the chunk's last entity takes the place of the deleted one
world_delete(w, ent) ==
    LET idx == CHOOSE i \in DOMAIN w : w[i].ent = ent
        n == Len(w)
    IN IF idx = n THEN SubSeq(w, 1, n - 1)
       ELSE SubSeq([w EXCEPT ![idx] = w[n]], 1, n - 1)

RECURSIVE delete_all(_, _)
delete_all(w, entities_to_delete) ==
    IF entities_to_delete = <<>> THEN w
    ELSE delete_all(world_delete(w, Head(entities_to_delete)),
                    Tail(entities_to_delete))

----------------------------------------------------------------------------
(* Core::tick, the unpaused part *)

\* the ids of the bodies the step marked for deletion
ids_to_delete(updated_bodies) ==
    {updated_bodies[i].id : i \in {j \in DOMAIN updated_bodies :
                                      updated_bodies[j].delete}}

\* the HashMap id -> Body of the bodies not marked: the last one of an id wins
bodies_to_update(updated_bodies) ==
    LET keep == {i \in DOMAIN updated_bodies : ~updated_bodies[i].delete}
    IN [id \in {updated_bodies[i].id : i \in keep} |->
          updated_bodies[CHOOSE i \in keep :
                            /\ updated_bodies[i].id = id
                            /\ \A j \in keep :
                                  updated_bodies[j].id = id => j <= i]]

\* the entities pushed to entities_to_delete, in iteration order
RECURSIVE entities_to_delete(_, _)
entities_to_delete(w, ids) ==
    IF w = <<>> THEN <<>>
    ELSE (IF Head(w).id \in ids THEN <<Head(w).ent>> ELSE <<>>)
            \o entities_to_delete(Tail(w), ids)

\* .expect("updated body should exist") fails for some entity
update_missing(w, updated_bodies) ==
    \E i \in DOMAIN w :
        /\ w[i].id \notin ids_to_delete(updated_bodies)
        /\ w[i].id \notin DOMAIN bodies_to_update(updated_bodies)

\* the write-back of one entity: position (plus the camera movement),
\* velocity and mass; the radius is not recalculated
written_back(e, updated_version, camera) ==
    [e EXCEPT !.position = IF updated_version.nan THEN <<0, 0>>
                           ELSE VAdd(updated_version.position, camera),
              !.velocity = updated_version.velocity,
              !.mass = updated_version.mass,
              !.nan = updated_version.nan]

\* the write-back loop over the entities
RECURSIVE written(_, _, _, _)
written(w, ids, map, camera) ==
    IF w = <<>> THEN <<>>
    ELSE <<IF Head(w).id \in ids THEN Head(w)
           ELSE written_back(Head(w), map[Head(w).id], camera)>>
            \o written(Tail(w), ids, map, camera)

\* applied without the loop over entities_to_delete
applied_without_delete(w, updated_bodies, camera) ==
    written(w, ids_to_delete(updated_bodies),
            bodies_to_update(updated_bodies), camera)

\* the world after the write-back loop and the deletions
applied(w, updated_bodies, camera) ==
    LET ids == ids_to_delete(updated_bodies)
        map == bodies_to_update(updated_bodies)
    IN delete_all(written(w, ids, map, camera), entities_to_delete(w, ids))

\* the ids of the bodies whose mass the step raised
absorbers_of(bodies, updated_bodies) ==
    {bodies[i].id : i \in {j \in DOMAIN bodies :
                              updated_bodies[j].mass > bodies[j].mass}}

\* the pairs <<a.id, b.id>> the collision pass finds colliding
collisions_of(bodies) ==
    {<<bodies[i].id, bodies[j].id>> :
        <<i, j>> \in {p \in (DOMAIN bodies) \X (DOMAIN bodies) :
                         /\ p[1] # p[2]
                         /\ are_colliding(bodies[p[1]], bodies[p[2]])}}

\* tick_world without the early return of a paused tick
tick_world_no_return(w, is_paused, dt, camera) ==
    applied(w, do_one_physics_step(dt, get_bodies(w)), camera)

\* the world tick leaves: untouched while paused
tick_world(w, is_paused, dt, camera) ==
    IF is_paused THEN w
    ELSE applied(w, do_one_physics_step(dt, get_bodies(w)), camera)

\* tick_orbit without the `predicted_orbit.is_none()` test
tick_orbit_every_paused_tick(cache, w, is_paused, dt) ==
    IF is_paused THEN SomeOrbit(predict_orbit(dt, w))
    ELSE cache

\* the cache tick leaves: filled by a paused tick that finds it empty
tick_orbit(cache, w, is_paused, dt) ==
    IF is_paused /\ ~cache.some THEN SomeOrbit(predict_orbit(dt, w))
    ELSE cache

----------------------------------------------------------------------------
(* Core::click *)

\* the squared distance from the click to the centre of entity e
centre_d2(e, click_position) == NormSquared(VSub(click_position, e.position))

\* Ball::distance_to_point(.., solid = true) is 0 inside or on the disc
in_disc(e, click_position) ==
    centre_d2(e, click_position) <= e.radius * e.radius

\* the filter: distance < 5, that is |click - centre| < radius + 5
within_tolerance(e, click_position) ==
    /\ ~e.nan
    /\ centre_d2(e, click_position)
          < (e.radius + CLICK_TOLERANCE) * (e.radius + CLICK_TOLERANCE)

\* distance(a) < distance(b): max(sqrt(d2a) - ra, 0) < max(sqrt(d2b) - rb, 0)
distance_less(a, b, click_position) ==
    IF in_disc(b, click_position) THEN FALSE
    ELSE IF in_disc(a, click_position) THEN TRUE
    ELSE IF a.radius >= b.radius
         THEN ~SqrtPlusLE(centre_d2(b, click_position), a.radius - b.radius,
                          centre_d2(a, click_position))
         ELSE SqrtPlusLess(centre_d2(a, click_position), b.radius - a.radius,
                           centre_d2(b, click_position))

\* .map(..).filter(distance < 5): the store's indices that pass the filter,
\* in iteration order
RECURSIVE filtered_from(_, _, _)
filtered_from(i, w, click_position) ==
    IF i > Len(w) THEN <<>>
    ELSE (IF within_tolerance(w[i], click_position) THEN <<i>> ELSE <<>>)
            \o filtered_from(i + 1, w, click_position)

\* an insertion that puts x in front of the elements at the same distance
RECURSIVE insert_before_equal(_, _, _, _)
insert_before_equal(sorted, x, w, click_position) ==
    IF sorted = <<>> THEN <<x>>
    ELSE IF distance_less(w[Head(sorted)], w[x], click_position)
         THEN <<Head(sorted)>>
                 \o insert_before_equal(Tail(sorted), x, w, click_position)
         ELSE <<x>> \o sorted

\* the stable insertion of sorted_by: x goes behind every element that is
\* not at a greater distance
RECURSIVE insert_stable(_, _, _, _)
insert_stable(sorted, x, w, click_position) ==
    IF sorted = <<>> THEN <<x>>
    ELSE IF distance_less(w[x], w[Head(sorted)], click_position)
         THEN <<x>> \o sorted
         ELSE <<Head(sorted)>>
                 \o insert_stable(Tail(sorted), x, w, click_position)

\* .sorted_by(partial_cmp of the distances), a stable sort
RECURSIVE sorted_by(_, _, _, _)
sorted_by(candidates, sorted, w, click_position) ==
    IF candidates = <<>> THEN sorted
    ELSE sorted_by(Tail(candidates),
                   insert_stable(sorted, Head(candidates), w, click_position),
                   w, click_position)

\* id_of_clicked_body: .next() of the sorted candidates, as a set of ids
id_of_clicked_body(w, click_position) ==
    LET candidates == filtered_from(1, w, click_position)
        sorted == sorted_by(candidates, <<>>, w, click_position)
    IN IF sorted = <<>> THEN {} ELSE {w[Head(sorted)].id}

\* the selection flags click leaves
\* selection that leaves the other bodies' flags as they are
RECURSIVE selection_keeping(_, _)
selection_keeping(w, clicked) ==
    IF w = <<>> THEN <<>>
    ELSE <<[Head(w) EXCEPT !.selected =
               IF Head(w).id \in clicked THEN TRUE
               ELSE IF clicked # {} THEN @ ELSE FALSE]>>
            \o selection_keeping(Tail(w), clicked)

RECURSIVE selection(_, _)
selection(w, clicked) ==
    IF w = <<>> THEN <<>>
    ELSE <<[Head(w) EXCEPT !.selected =
               IF clicked # {} THEN Head(w).id \in clicked ELSE FALSE]>>
            \o selection(Tail(w), clicked)

----------------------------------------------------------------------------
(* Core::draw *)

drawable(e, select_marker) ==
    [position |-> IF e.nan THEN <<0, 0, 1>> ELSE e.position,
     sun |-> IF select_marker THEN FALSE ELSE e.sun,
     radius |-> e.radius, select_marker |-> select_marker]

RECURSIVE selection_markers(_)
selection_markers(w) ==
    IF w = <<>> THEN <<>>
    ELSE (IF Head(w).selected THEN <<drawable(Head(w), TRUE)>> ELSE <<>>)
            \o selection_markers(Tail(w))

RECURSIVE drawables(_)
drawables(w) ==
    IF w = <<>> THEN <<>>
    ELSE <<drawable(Head(w), FALSE)>> \o drawables(Tail(w))

draw_bodies(w) == drawables(w) \o selection_markers(w)

\* predicted_orbit.clone().unwrap_or_default()
draw_orbit(cache) == IF cache.some THEN cache.points ELSE <<>>

----------------------------------------------------------------------------
(* The operations *)

\* Core::new
Init ==
    /\ world = <<>>
    /\ paused = FALSE
    /\ predicted_orbit = NoOrbit
    /\ panicked = FALSE
    /\ inits = 0
    /\ ticks = 0
    /\ last = Call("new")

\* Core::init, called at most max_inits times, its draws taken from `draws`
init(max_inits, draws) ==
    /\ ~panicked
    /\ inits < max_inits
    /\ \E d \in [1..NUM_BODIES -> draws] :
          world' = inserted(world, inits * (NUM_BODIES + 1), d)
    /\ inits' = inits + 1
    /\ last' = Call("init")
    /\ UNCHANGED <<paused, predicted_orbit, panicked, ticks>>

\* Core::tick
tick ==
    /\ ~panicked
    /\ paused \/ ticks < MaxTicks
    /\ \E input \in TickInputs :
         LET dt == input.dt
             camera == input.camera
             bodies == get_bodies(world)
             updated_bodies == do_one_physics_step(dt, bodies)
         IN IF ~paused /\ update_missing(world, updated_bodies)
            THEN /\ panicked' = TRUE
                 /\ last' = Call("panic")
                 /\ UNCHANGED <<world, predicted_orbit, ticks>>
            ELSE /\ world' = tick_world(world, paused, dt, camera)
                 /\ predicted_orbit' =
                       tick_orbit(predicted_orbit, world, paused, dt)
                 /\ ticks' = IF paused THEN ticks ELSE ticks + 1
                 /\ last' = [Call("tick") EXCEPT
                       !.dt = dt,
                       !.computed = paused /\ ~predicted_orbit.some,
                       !.deleted = IF paused THEN {}
                                   ELSE ids_to_delete(updated_bodies),
                       !.absorbers = IF paused THEN {}
                                     ELSE absorbers_of(bodies, updated_bodies),
                       !.collisions = IF paused THEN {}
                                      ELSE collisions_of(moved_bodies(dt, bodies))]
                 /\ UNCHANGED panicked
    /\ UNCHANGED <<paused, inits>>

\* Core::draw: a query, it returns <<draw_bodies(world),
\* draw_orbit(predicted_orbit)>> and changes nothing
draw ==
    /\ ~panicked
    /\ UNCHANGED vars

\* Core::click
click ==
    /\ ~panicked
    /\ \E click_position \in ClickPoints :
         LET clicked == id_of_clicked_body(world, click_position)
         IN /\ world' = selection(world, clicked)
            /\ last' = [Call("click") EXCEPT !.clicked = clicked]
    /\ predicted_orbit' = NoOrbit
    /\ UNCHANGED <<paused, panicked, inits, ticks>>

\* Core::pause
pause ==
    /\ ~panicked
    /\ paused' = ~paused
    /\ last' = Call("pause")
    /\ UNCHANGED <<world, predicted_orbit, panicked, inits, ticks>>

\* the host calls init once
Next == init(1, BodyDraws) \/ tick \/ draw \/ click \/ pause

Spec == Init /\ [][Next]_vars

\* a host that calls init again on an initialised core
NextReinit == init(MaxInits, RestDraws) \/ tick \/ draw \/ click \/ pause

SpecReinit == Init /\ [][NextReinit]_vars

----------------------------------------------------------------------------
(* Properties *)

\* what a claim can see of the live store: each body's id and physical state
live_store(w) ==
    {[id |-> w[i].id, position |-> w[i].position, velocity |-> w[i].velocity,
      mass |-> w[i].mass, radius |-> w[i].radius, nan |-> w[i].nan] :
        i \in DOMAIN w}

live_ids(w) == {w[i].id : i \in DOMAIN w}
entities(w) == {w[i].ent : i \in DOMAIN w}
selected_ids(w) == {w[i].id : i \in {j \in DOMAIN w : w[j].selected}}

\* this step is an unpaused tick
UnpausedTickStep == ticks' = ticks + 1

\* the bodies an unpaused tick step hands to its collision pass
MovedNow == moved_bodies(last'.dt, get_bodies(world))

\* b and c are two non-sun bodies of `bodies` that overlap, and no other
\* body of `bodies` overlaps either of them
IsolatedPair(bodies, b, c) ==
    /\ b # c
    /\ ~bodies[b].sun
    /\ ~bodies[c].sun
    /\ are_colliding(bodies[b], bodies[c])
    /\ \A o \in DOMAIN bodies \ {b, c} :
          /\ ~are_colliding(bodies[b], bodies[o])
          /\ ~are_colliding(bodies[c], bodies[o])

\* after the step, of the bodies b and c only b is live, with the mass of both
Merged(bodies, b, c) ==
    /\ bodies[c].id \notin live_ids(world')
    /\ \E i \in DOMAIN world' :
          /\ world'[i].id = bodies[b].id
          /\ world'[i].mass = bodies[b].mass + bodies[c].mass
          /\ \A j \in DOMAIN world' \ {i} : world'[j].id # bodies[b].id

\* C1: while the core is paused, a tick (the one that computes the orbit
\* prediction included) leaves the live store unchanged: the same ids, and
\* for each the same position, velocity, mass and radius.
C1_PausedTickKeepsStore ==
    [][(paused /\ last'.op = "tick") => live_store(world') = live_store(world)]_vars

\* a paused tick has just computed a prediction in which the scratch copy lost
\* a body that the live store still holds
C1_Witness ==
    /\ last.op = "tick"
    /\ paused
    /\ last.computed
    /\ predicted_orbit.some
    /\ predicted_orbit.points # <<>>
    /\ \E b \in DOMAIN world :
          do_one_physics_step(last.dt, get_bodies(world))[b].delete

\* C2: after a click, and after a pause() that unpauses, the cached
\* prediction is cleared: draw returns an empty orbit.
C2_CacheClearedOnClickAndUnpause ==
    (last.op = "click" \/ (last.op = "pause" /\ ~paused))
        => draw_orbit(predicted_orbit) = <<>>

\* C3: after one init, at most one body is selected; right after a click
\* that resolves to body X exactly X is selected, and right after a click
\* that resolves to no body none is.
C3_SelectionExclusive ==
    LET sel == {i \in DOMAIN world : world[i].selected}
    IN /\ Cardinality(sel) <= 1
       /\ last.op = "click" =>
             /\ selected_ids(world) = last.clicked
             /\ last.clicked # {} => Cardinality(sel) = 1
             /\ last.clicked = {} => sel = {}

\* a click has just selected a body of a store of several bodies
C3_Witness ==
    /\ last.op = "click"
    /\ last.clicked # {}
    /\ Len(world) > 1
    /\ selected_ids(world) = last.clicked
    /\ ticks > 0

\* C4: in the collision pass of a tick, of two overlapping non-sun bodies
\* (no third body overlapping them) exactly one absorbs (its mass grows) and
\* exactly one is marked for deletion, whatever their masses.
C4_OneAbsorberOneDeletion ==
    [][UnpausedTickStep =>
         LET out == collision_pass(MovedNow)
         IN \A b, c \in DOMAIN MovedNow :
               IsolatedPair(MovedNow, b, c) =>
                  /\ Cardinality({k \in {b, c} :
                                     out[k].mass > MovedNow[k].mass}) = 1
                  /\ Cardinality({k \in {b, c} : out[k].delete}) = 1]_vars

\* C5 as claimed: two non-sun bodies with masses m1 > m2 that overlap in the
\* store before an unpaused tick (no other body overlapping them) are merged
\* by it: only the heavier stays live, with mass m1 + m2.  (Stated for two
\* bodies on different points: on the same point the force is NaN.)
C5_MergeOfOverlapBeforeTick ==
    [][UnpausedTickStep =>
         LET bodies == get_bodies(world)
         IN \A b, c \in DOMAIN bodies :
               (/\ IsolatedPair(bodies, b, c)
                /\ bodies[b].mass > bodies[c].mass
                /\ bodies[b].position # bodies[c].position)
                  => Merged(bodies, b, c)]_vars

\* C5 as amended: two non-sun bodies with masses m1 > m2 that overlap in the
\* collision pass of an unpaused tick, that is after its velocity and move
\* passes (no other body overlapping them), are merged by it: only the
\* heavier stays live, with mass m1 + m2.
C5_MergeOfOverlapAfterMove ==
    [][UnpausedTickStep =>
         \A b, c \in DOMAIN MovedNow :
            (IsolatedPair(MovedNow, b, c)
                /\ MovedNow[b].mass > MovedNow[c].mass)
               => Merged(MovedNow, b, c)]_vars

\* a tick has just merged two colliding non-sun bodies: one id is gone and
\* the live absorber is heavier than any body init draws
C5_Witness ==
    /\ last.op = "tick"
    /\ Cardinality(last.deleted) = 1
    /\ \E i \in DOMAIN world :
          /\ ~world[i].sun
          /\ world[i].id \in last.absorbers
          /\ \E d \in last.deleted :
                /\ <<world[i].id, d>> \in last.collisions
                /\ \A p \in last.collisions : p[1] \in {world[i].id, d}
                                              /\ p[2] \in {world[i].id, d}
          /\ \A d \in Draws : world[i].mass > d.mass

\* the sun of the store (one init: there is one, and it is never deleted)
SunOf(w) == w[CHOOSE i \in DOMAIN w : w[i].sun]

\* the non-sun bodies lighter than the sun that overlap it in the collision
\* pass of this unpaused tick step
SunHits ==
    {b \in DOMAIN MovedNow :
        /\ ~MovedNow[b].sun
        /\ \E s \in DOMAIN MovedNow :
              /\ MovedNow[s].sun
              /\ MovedNow[b].mass < MovedNow[s].mass
              /\ are_colliding(MovedNow[b], MovedNow[s])}

C7_SunVelocityKept ==
    [][\A i \in DOMAIN world :
          world[i].sun =>
             \E j \in DOMAIN world' :
                /\ world'[j].ent = world[i].ent
                /\ world'[j].velocity = world[i].velocity
                /\ world'[j].nan = world[i].nan]_vars

\* a tick has just moved bodies that attract the sun, one of them overlapping it
C7_Witness ==
    /\ last.op = "tick"
    /\ ticks > 0
    /\ \E p \in last.collisions : p[2] = SUN_ID
    /\ \E i, j \in DOMAIN world : world[i].sun /\ ~world[j].sun

\* the velocity change body receives from clone in the velocity pass
velocity_change(body, clone, time_step) ==
    VSub(gravity_on(body, clone, time_step).velocity, body.velocity)

\* C8: the velocity change a non-sun body receives from another body in the
\* velocity pass is the same for every mass of the receiving body.
C8_OwnMassCancels ==
    \A i, j \in DOMAIN world :
       (i # j /\ ~world[i].sun
          /\ ~force_is_nan(as_body(world[i]), as_body(world[j]))) =>
          \A input \in TickInputs, d \in Draws :
             velocity_change(as_body(world[i]), as_body(world[j]), input.dt)
               = velocity_change([as_body(world[i]) EXCEPT !.mass = d.mass],
                                 as_body(world[j]), input.dt)

\* C9: after every call of init the store holds exactly one sun, with id -1,
\* and exactly NUM_BODIES other bodies, all ids distinct.
C9_InitClears ==
    last.op = "init" =>
       /\ Cardinality({i \in DOMAIN world : world[i].sun}) = 1
       /\ \A i \in DOMAIN world : world[i].sun <=> world[i].id = SUN_ID
       /\ Cardinality({i \in DOMAIN world : ~world[i].sun}) = NUM_BODIES
       /\ Cardinality(live_ids(world)) = Len(world)

\* C10: after one init, an unpaused tick removes exactly the bodies its
\* collision pass marked for deletion (and every other body finds its
\* update: no expect fails), and no other call adds or removes a body.
C10_DeletedExactlyWhenMarked ==
    [][/\ ~panicked'
       /\ UnpausedTickStep =>
             /\ live_ids(world') = live_ids(world) \ last'.deleted
             /\ Cardinality(live_ids(world')) = Len(world')
       /\ (~UnpausedTickStep /\ inits' = inits) =>
             entities(world') = entities(world)]_vars

\* a tick has just removed a marked body and kept an unmarked one
C10_Witness ==
    /\ last.op = "tick"
    /\ last.deleted # {}
    /\ live_ids(world) \ {SUN_ID} # {}
    /\ live_ids(world) \cap last.deleted = {}
    /\ ~panicked

----------------------------------------------------------------------------
(* C11 *)

\* the mass the store holds for the entity `ent`
mass_of(w, ent) == w[CHOOSE i \in DOMAIN w : w[i].ent = ent].mass

\* C11: every body in the store has a mass above 0, and a body that is in
\* the store before and after a tick has at least the mass it had before
C11_MassPositiveAndNeverLower ==
    [][/\ \A i \in DOMAIN world' : world'[i].mass > 0
       /\ last'.op = "tick" =>
             \A ent \in entities(world) \cap entities(world') :
                mass_of(world', ent) >= mass_of(world, ent)]_vars

\* an unpaused tick after which a body that swallowed another is in the store
\* with more mass than init drew for any body, next to the sun
C11_Witness ==
    /\ last.op = "tick"
    /\ ticks > 0
    /\ \E i \in DOMAIN world :
          /\ ~world[i].sun
          /\ world[i].id \in last.absorbers
          /\ \A d \in BodyDraws : world[i].mass > d.mass
          /\ \E j \in DOMAIN world : world[j].sun /\ world[j].mass = SUN_SIZE

----------------------------------------------------------------------------
(* C12 *)

\* the bodies whose distance to the click is below the tolerance
near(w, click_position) ==
    {i \in DOMAIN w : within_tolerance(w[i], click_position)}

\* the ids of the bodies at the smallest distance among the near ones that
\* have no body at the same distance in front of them in iteration order
nearest_first(w, click_position) ==
    {w[i].id : i \in {k \in near(w, click_position) :
        \A j \in near(w, click_position) :
           /\ ~distance_less(w[j], w[k], click_position)
           /\ j < k => distance_less(w[k], w[j], click_position)}}

\* C12: for every click point, click picks the body at the smallest distance
\* (0 inside or on the disc) among those at a distance below 5, the first in
\* iteration order among several at that distance, and nothing when no body
\* is at a distance below 5; after a click exactly the picked body is selected
C12_ClickSelectsNearestFirst ==
    /\ \A p \in ClickPoints :
          /\ id_of_clicked_body(world, p) = nearest_first(world, p)
          /\ near(world, p) = {} <=> id_of_clicked_body(world, p) = {}
          /\ Cardinality(id_of_clicked_body(world, p)) <= 1
    /\ last.op = "click" =>
          /\ selected_ids(world) = last.clicked
          /\ \E p \in ClickPoints : last.clicked = nearest_first(world, p)

\* a click on a point at the same smallest distance from two bodies has
\* selected the one in front in iteration order
C12_Witness ==
    /\ last.op = "click"
    /\ \E p \in ClickPoints :
          \E i, j \in near(world, p) :
             /\ i < j
             /\ ~distance_less(world[i], world[j], p)
             /\ ~distance_less(world[j], world[i], p)
             /\ \A k \in near(world, p) :
                    ~distance_less(world[k], world[i], p)
             /\ last.clicked = {world[i].id}
             /\ world[i].selected
             /\ ~world[j].selected

----------------------------------------------------------------------------
(* C13: the collision pass of do_one_physics_step as a function of the
   bodies it is given *)

\* the number of non-sun bodies given to the pass
PassBodies == 3

\* their places on the line y = PassY and their masses: bodies of radius 1
\* at most 2 apart overlap
PassXs == {100, 101, 102, 105}
PassY == 100
PassMasses == {3, 5, 7}

PassDraws == [x : PassXs, mass : PassMasses]

\* the store of the sun and PassBodies bodies at rest, each at its own place
pass_store(d) ==
    <<Entity(0, SUN_ID, TRUE, <<Div(WIDTH, 2), Div(HEIGHT, 2)>>, <<0, 0>>,
             from_mass(SUN_SIZE))>>
      \o [k \in 1..PassBodies |->
            Entity(k, k - 1, FALSE, <<d[k].x, PassY>>, <<0, 0>>,
                   from_mass(d[k].mass))]

InitCollision ==
    /\ world \in {pass_store(d) :
                     d \in {e \in [1..PassBodies -> PassDraws] :
                               \A j, k \in 1..PassBodies :
                                  j # k => e[j].x # e[k].x}}
    /\ paused = FALSE
    /\ predicted_orbit = NoOrbit
    /\ panicked = FALSE
    /\ inits = 1
    /\ ticks = 0
    /\ last = Call("init")

\* the loop "collision detection" over the bodies of the store; `last` takes
\* the ids it marked for deletion and the ids whose mass it raised
collision_detection ==
    /\ last.op = "init"
    /\ LET bodies == get_bodies(world)
           updated_bodies == collision_pass(bodies)
       IN last' = [Call("collision_detection") EXCEPT
                      !.deleted = ids_to_delete(updated_bodies),
                      !.absorbers = absorbers_of(bodies, updated_bodies),
                      !.collisions = collisions_of(bodies)]
    /\ UNCHANGED <<world, paused, predicted_orbit, panicked, inits, ticks>>

NextCollision == collision_detection

SpecCollision == InitCollision /\ [][NextCollision]_vars

\* C13: the collision pass marks a non-sun body for deletion exactly when it
\* overlaps another body whose mass at the start of the pass is greater than
\* or equal to its own mass at the start of the pass
C13_DeletedIffNotBiggerAtStart ==
    last.op = "collision_detection" =>
       LET bodies == get_bodies(world)
       IN \A i \in DOMAIN bodies :
             ~bodies[i].sun =>
                (bodies[i].id \in last.deleted
                   <=> \E j \in DOMAIN bodies :
                          /\ j # i
                          /\ are_colliding(bodies[i], bodies[j])
                          /\ bodies[j].mass >= bodies[i].mass)

----------------------------------------------------------------------------
(* C14 *)

\* C14: a tick that arrives while paused with no cached prediction computes
\* the prediction from the store as it is; an unpaused tick leaves the cache
\* as it is; a paused tick that finds a cached prediction leaves it unchanged
C14_PredictionComputedOnce ==
    [][/\ UnpausedTickStep =>
             /\ predicted_orbit' = predicted_orbit
             /\ ~last'.computed
       /\ (paused /\ ~predicted_orbit.some /\ last'.op = "tick") =>
             /\ predicted_orbit' = SomeOrbit(predict_orbit(last'.dt, world))
             /\ last'.computed
       /\ (paused /\ predicted_orbit.some /\ last'.op = "tick") =>
             /\ predicted_orbit' = predicted_orbit
             /\ ~last'.computed]_vars

\* a later paused tick has left a non-empty cached prediction that a
\* computation by that tick would not have produced
C14_Witness ==
    /\ paused
    /\ last.op = "tick"
    /\ ~last.computed
    /\ predicted_orbit.some
    /\ predicted_orbit.points # <<>>
    /\ predicted_orbit.points # predict_orbit(last.dt, world)

====
